---- MODULE Spec2Model ----
(***************************************************************************)
(* Model of notebooks/03-Map-Dash.ipynb: the curve-availability builder    *)
(* (well_has_curve and the loop that adds one boolean column per curve to  *)
(* locations_df) and the two Dash callbacks update_figure and              *)
(* update_output that filter locations_df on every interaction.            *)
(***************************************************************************)
EXTENDS Integers, Sequences, FiniteSets, TLC

VARIABLES
    well_data_df,   \* measurement table: sequence of rows [WELL, vals]
    locations_df,   \* metadata table: sequence of rows [WELL, Dataset, cols]
    curve_i,        \* position of the builder loop `for curve in curves`
    value_curves,   \* 'curves-dropdown'.value of the browser session
    value_datasets, \* 'datasets-checkbox'.value
    selectedData,   \* 'map-plot'.selectedData
    figure,         \* 'map-plot'.figure as last returned by update_figure
    output,         \* outcome of the last update_output call
    pending,        \* callbacks Dash has queued and not yet run
    other           \* last response served to another browser session

vars == <<well_data_df, locations_df, curve_i, value_curves, value_datasets,
          selectedData, figure, output, pending, other>>

table_vars == <<well_data_df, locations_df, curve_i>>

dash_vars == <<value_curves, value_datasets, selectedData, figure, output, pending, other>>

-----------------------------------------------------------------------------
(* Bounds of the model *)

\* rows of the measurement table enumerated for the builder
MaxRows == 2

\* points of a selection event posted to the selectedData input
MaxPoints == 2

-----------------------------------------------------------------------------
(* Data *)

\* the curve list of the notebook
curves ==
    <<"FORMATION", "CALI", "RSHA", "RMED", "RDEP", "RHOB", "GR", "SGR",
      "NPHI", "PEF", "DTC", "SP", "BS", "ROP", "DTS", "DCAL", "DRHO",
      "MUDWEIGHT", "RMIC", "ROPA", "RXO">>

\* the curves the model tracks: the entries of `curves` from RHOB to GR
catalog == SelectSeq(curves, LAMBDA c : c \in {"RHOB", "GR"})

CatalogSet == {catalog[i] : i \in 1..Len(catalog)}

\* options of the 'datasets-checkbox' checklist
DatasetOptions == <<"Train", "Test">>

DatasetSet == {DatasetOptions[i] : i \in 1..Len(DatasetOptions)}

\* Python's None, and a missing sample (NaN) of the measurement table
None == [none |-> TRUE]

NaN == "NaN"

\* wells of force_2020_meta.csv, in file order
MetaWells == <<"A", "B", "C">>

\* wells that may occur in train.csv / test.csv: "X" has no metadata row
DataWells == {"A", "B", "C", "X"}

Range(s) == {s[i] : i \in 1..Len(s)}

\* pd.read_csv of the metadata file: one row per well, no curve column yet
read_meta(ds) ==
    [i \in 1..Len(MetaWells) |->
        [WELL |-> MetaWells[i], Dataset |-> ds[i], cols |-> <<>>]]

\* a row of pd.concat([train_df, test_df]): the well and one sample per curve
DataRows == [WELL : DataWells, vals : [CatalogSet -> {NaN, "1.0"}]]

RECURSIVE SeqsUpTo(_, _)
SeqsUpTo(S, n) ==
    IF n = 0 THEN {<<>>}
    ELSE LET shorter == SeqsUpTo(S, n - 1)
         IN  shorter \cup {Append(s, x) : s \in {t \in shorter : Len(t) = n - 1}, x \in S}

-----------------------------------------------------------------------------
(* pandas helpers *)

\* df[mask]: the rows whose mask entry is true, in table order
RECURSIVE BoolIndex(_, _)
BoolIndex(df, mask) ==
    IF df = <<>> THEN <<>>
    ELSE LET rest == BoolIndex(Tail(df), Tail(mask))
         IN  IF Head(mask) THEN <<Head(df)>> \o rest ELSE rest

\* series.isnull()
isnull(series) == [i \in 1..Len(series) |-> series[i] = NaN]

\* series.all(): true of the empty series
all(series) == \A i \in 1..Len(series) : series[i]

\* series.isin(values)
isin(series, values) == [i \in 1..Len(series) |-> series[i] \in Range(values)]

\* df[name] for a plain column
Column(df, name) ==
    [i \in 1..Len(df) |->
        CASE name = "WELL" -> df[i].WELL
          [] name = "Dataset" -> df[i].Dataset]

-----------------------------------------------------------------------------
(* Curve-availability builder *)

\* the mutation of well_has_curve that reads `not isnull().any()`
well_has_curve_any(row, data_df, curve) ==
    LET well_name == row.WELL
        rows == BoolIndex(data_df, [i \in 1..Len(data_df) |-> data_df[i].WELL = well_name])
        series == [i \in 1..Len(rows) |-> rows[i].vals[curve]]
    IN  ~ (\E i \in 1..Len(series) : isnull(series)[i])

\* not data_df.loc[data_df['WELL']==well_name, curve].isnull().all()
well_has_curve(row, data_df, curve) ==
    LET well_name == row.WELL
        rows == BoolIndex(data_df, [i \in 1..Len(data_df) |-> data_df[i].WELL = well_name])
        series == [i \in 1..Len(rows) |-> rows[i].vals[curve]]
    IN  ~ all(isnull(series))

\* locations_df[curve] = locations_df.apply(lambda row: ..., axis=1)
add_column(df, data_df, curve) ==
    [i \in 1..Len(df) |->
        [df[i] EXCEPT !.cols =
            [c \in DOMAIN df[i].cols \cup {curve} |->
                IF c = curve THEN well_has_curve(df[i], data_df, curve)
                ELSE df[i].cols[c]]]]

\* the loop `for curve in curves` has run to its end
Built == curve_i > Len(catalog)

\* the page as served: layout values, nothing drawn, both callbacks queued
\* by the first page load
DashInit ==
    /\ value_curves = <<"GR">>
    /\ value_datasets = <<"Train", "Test">>
    /\ selectedData = None
    /\ figure = None
    /\ output = None
    /\ pending = {"update_figure", "update_output"}
    /\ other = None

\* one iteration of the builder loop
BuildColumn ==
    /\ ~ Built
    /\ locations_df' = add_column(locations_df, well_data_df, catalog[curve_i])
    /\ curve_i' = curve_i + 1
    /\ UNCHANGED <<well_data_df, dash_vars>>

InitBuild ==
    /\ well_data_df \in SeqsUpTo(DataRows, MaxRows)
    /\ \E ds \in [1..Len(MetaWells) -> DatasetSet] : locations_df = read_meta(ds)
    /\ curve_i = 1
    /\ DashInit

NextBuild == BuildColumn

SpecBuild == InitBuild /\ [][NextBuild]_vars

-----------------------------------------------------------------------------
(* The dashboard callbacks *)

\* the mutation of the curve mask that reads `.any(axis=1)`
curve_mask_any(df, curves_arg) ==
    [i \in 1..Len(df) |-> \E k \in 1..Len(curves_arg) : df[i].cols[curves_arg[k]]]

\* locations_df[curves].values.all(axis=1): one boolean per row, true when
\* every listed column is true (true of every row for an empty list)
curve_mask_of(df, curves_arg) ==
    [i \in 1..Len(df) |-> \A k \in 1..Len(curves_arg) : df[i].cols[curves_arg[k]]]

\* the mutation of the filtering that leaves out the Dataset line
qualified_curves_only(curves_arg, datasets) ==
    BoolIndex(locations_df, curve_mask_of(locations_df, curves_arg))

\* the filtering both callbacks start with
qualified(curves_arg, datasets) ==
    LET curve_mask == curve_mask_of(locations_df, curves_arg)
        dff == BoolIndex(locations_df, curve_mask)
    IN  BoolIndex(dff, isin(Column(dff, "Dataset"), datasets))

\* values of a column in order of first appearance (plotly express makes
\* one trace per value of the color column, in this order)
RECURSIVE unique(_)
unique(series) ==
    IF series = <<>> THEN <<>>
    ELSE LET front == unique(SubSeq(series, 1, Len(series) - 1))
             last == series[Len(series)]
         IN  IF last \in Range(front) THEN front ELSE Append(front, last)

\* the single point of the map drawn when no well qualifies: it is given
\* lat and lon only, no hover_data, hence carries no customdata
placeholder_point == [lat |-> "59.610511", lon |-> "2.772594"]

\* a point of the scatter of wells: hover_data puts WELL first in customdata
well_point(row) == [customdata |-> <<row.WELL>>]

\* px.scatter_mapbox(dff, ..., color='Dataset', hover_data={'WELL': True, ...})
scatter_mapbox(dff) ==
    LET colors == unique(Column(dff, "Dataset"))
    IN  [data |->
            [t \in 1..Len(colors) |->
                LET rows == BoolIndex(dff, [i \in 1..Len(dff) |-> dff[i].Dataset = colors[t]])
                IN  [k \in 1..Len(rows) |-> well_point(rows[k])]]]

\* the mutation of update_figure that plots the wells of every dataset
update_figure_every_dataset(curves_arg, datasets) ==
    LET dff == qualified_curves_only(curves_arg, datasets)
    IN  IF Len(dff) = 0
        THEN [data |-> << <<placeholder_point>> >>]
        ELSE scatter_mapbox(dff)

update_figure(curves_arg, datasets) ==
    LET dff == qualified(curves_arg, datasets)
        num_wells == Len(dff)
    IN  IF num_wells = 0
        THEN [data |-> << <<placeholder_point>> >>]
        ELSE scatter_mapbox(dff)

\* ", ".join(...)
RECURSIVE join(_, _)
join(sep, strs) ==
    IF strs = <<>> THEN ""
    ELSE IF Len(strs) = 1 THEN strs[1]
    ELSE strs[1] \o sep \o join(sep, Tail(strs))

\* a dict is truthy when it has a key, a list when it has an element
truthy_dict(d) == DOMAIN d # {}

truthy_list(l) == Len(l) > 0

\* `selected_items is not None`, then `selected_item and selected_item['points']`
reads_points(selected_items) ==
    /\ selected_items # None
    /\ truthy_dict(selected_items)
    /\ truthy_list(selected_items.points)

\* p['customdata'] raises KeyError for a point without customdata
has_customdata(points) == \A k \in 1..Len(points) : "customdata" \in DOMAIN points[k]

\* [p['customdata'][0] for p in selected_item['points']]
customdata0(points) == [k \in 1..Len(points) |-> points[k].customdata[1]]

\* the mutation that takes an event without points as "choose nothing"
chosen_wells_strict(selected_items, all_wells) ==
    IF selected_items # None THEN customdata0(selected_items.points) ELSE all_wells

\* the mutation that shows every well when no selected well qualifies
chosen_wells_fallback(selected_items, all_wells) ==
    IF reads_points(selected_items)
       /\ Range(customdata0(selected_items.points)) \cap Range(all_wells) # {}
    THEN customdata0(selected_items.points)
    ELSE all_wells

\* lasso_wells as the loop leaves it, then `lasso_wells if lasso_wells else
\* all_wells`; <<>> stands for lasso_wells = None, <<l>> for the list l
chosen_wells(selected_items, all_wells) ==
    LET lasso_wells ==
            IF reads_points(selected_items)
            THEN <<customdata0(selected_items.points)>>
            ELSE <<>>
    IN  IF lasso_wells # <<>> /\ truthy_list(lasso_wells[1])
        THEN lasso_wells[1]
        ELSE all_wells

\* the mutation that lists the wells in the order the selection names them
RECURSIVE select_in_lasso_order(_, _)
select_in_lasso_order(dff, chosen) ==
    IF chosen = <<>> THEN <<>>
    ELSE BoolIndex(dff, [i \in 1..Len(dff) |-> dff[i].WELL = Head(chosen)])
            \o select_in_lasso_order(dff, Tail(chosen))

\* select_mask = dff['WELL'].isin(...); dff = dff[select_mask]
select(dff, chosen) == BoolIndex(dff, isin(Column(dff, "WELL"), chosen))

\* the mutation of the text that joins the names with "," alone
render_comma(num_wells, well_names) ==
    "\nYou have selected " \o ToString(num_wells) \o " wells.\n\n"
        \o "selected_wells = ["
        \o join(",", [k \in 1..Len(well_names) |-> "'" \o well_names[k] \o "'"])
        \o "]"

\* output_text + well_list_text
render(num_wells, well_names) ==
    LET output_text == "\nYou have selected " \o ToString(num_wells) \o " wells.\n\n"
        quoted == [k \in 1..Len(well_names) |-> "'" \o well_names[k] \o "'"]
        well_list_text == "selected_wells = [" \o join(", ", quoted) \o "]"
    IN  output_text \o well_list_text

\* The outcome of a call: [raised |-> "KeyError"] when the list
\* comprehension meets a point without customdata, else the returned text
\* (children) with the num_wells and well_names it was rendered from.
update_output(curves_arg, datasets, selected_items) ==
    LET dff0 == qualified(curves_arg, datasets)
        all_wells == Column(dff0, "WELL")
    IN  IF reads_points(selected_items) /\ ~ has_customdata(selected_items.points)
        THEN [raised |-> "KeyError"]
        ELSE LET dff == select(dff0, chosen_wells(selected_items, all_wells))
                 num_wells == Len(dff)
                 well_names == Column(dff, "WELL")
             IN  [num_wells |-> num_wells, well_names |-> well_names,
                  children |-> render(num_wells, well_names)]

-----------------------------------------------------------------------------
(* The browser session and the callback queue *)

Remove(s, x) == SelectSeq(s, LAMBDA y : y # x)

\* all points of a figure, trace after trace
RECURSIVE Flatten(_)
Flatten(traces) ==
    IF traces = <<>> THEN <<>> ELSE Head(traces) \o Flatten(Tail(traces))

\* identifiers a posted selection event may name: "Z" is no well of the table
PointIds == Range(MetaWells) \cup {"Z"}

\* selection events made of points that carry customdata
PostedEvents ==
    {[points |-> [k \in 1..Len(ids) |-> [customdata |-> <<ids[k]>>]]] :
        ids \in SeqsUpTo(PointIds, MaxPoints) \ {<<>>}}

\* The session interacts once the page has settled (one request and its
\* responses per interaction), so every action of the user waits for an
\* empty callback queue.

\* the user adds a curve to the multi-value dropdown
AddCurve(c) ==
    /\ Built
    /\ pending = {}
    /\ c \notin Range(value_curves)
    /\ value_curves' = Append(value_curves, c)
    /\ pending' = {"update_figure", "update_output"}
    /\ UNCHANGED <<table_vars, value_datasets, selectedData, figure, output, other>>

\* the user removes a curve from the dropdown
RemoveCurve(c) ==
    /\ Built
    /\ pending = {}
    /\ c \in Range(value_curves)
    /\ value_curves' = Remove(value_curves, c)
    /\ pending' = {"update_figure", "update_output"}
    /\ UNCHANGED <<table_vars, value_datasets, selectedData, figure, output, other>>

\* the user ticks or unticks a box of the checklist
ToggleDataset(d) ==
    /\ Built
    /\ pending = {}
    /\ value_datasets' = IF d \in Range(value_datasets)
                         THEN Remove(value_datasets, d)
                         ELSE Append(value_datasets, d)
    /\ pending' = {"update_figure", "update_output"}
    /\ UNCHANGED <<table_vars, value_curves, selectedData, figure, output, other>>

\* box or lasso selection on the map as drawn: the event lists the points
\* inside the region, trace after trace
SelectOnMap ==
    /\ Built
    /\ pending = {}
    /\ figure # None
    /\ LET shown == Flatten(figure.data)
       IN  \E mask \in [1..Len(shown) -> BOOLEAN] :
              selectedData' = [points |-> BoolIndex(shown, mask)]
    /\ pending' = {"update_output"}
    /\ UNCHANGED <<table_vars, value_curves, value_datasets, figure, output, other>>

\* a selectedData value posted to the callback input: cleared (None), or
\* points that name any identifiers in any order, repeats included
ForwardSelection ==
    /\ Built
    /\ pending = {}
    /\ selectedData' \in PostedEvents \cup {None}
    /\ pending' = {"update_output"}
    /\ UNCHANGED <<table_vars, value_curves, value_datasets, figure, output, other>>

\* Dash runs the queued update_figure callback on the inputs of the session
RunUpdateFigure ==
    /\ Built
    /\ "update_figure" \in pending
    /\ figure' = update_figure(value_curves, value_datasets)
    /\ pending' = pending \ {"update_figure"}
    /\ UNCHANGED <<table_vars, value_curves, value_datasets, selectedData, output, other>>

\* an update_output that narrows the shared table in place
RunUpdateOutputInPlace ==
    /\ Built
    /\ "update_output" \in pending
    /\ output' = update_output(value_curves, value_datasets, selectedData)
    /\ locations_df' = qualified(value_curves, value_datasets)
    /\ pending' = pending \ {"update_output"}
    /\ UNCHANGED <<well_data_df, curve_i, value_curves, value_datasets,
                   selectedData, figure, other>>

\* Dash runs the queued update_output callback on the inputs of the session
RunUpdateOutput ==
    /\ Built
    /\ "update_output" \in pending
    /\ output' = update_output(value_curves, value_datasets, selectedData)
    /\ pending' = pending \ {"update_output"}
    /\ UNCHANGED <<table_vars, value_curves, value_datasets, selectedData, figure, other>>

\* values the checklist can hold: lists without repeats
Lists(S) == {l \in SeqsUpTo(S, Cardinality(S)) : Cardinality(Range(l)) = Len(l)}

\* Another browser session of the same server: it opens the page, which
\* fires both callbacks with the dropdown as laid out and no selection, or
\* changes its checklist; the callback runs against the shared
\* locations_df and answers that session.
OtherSession ==
    /\ Built
    /\ \E datasets \in Lists(DatasetSet) :
          \/ other' = update_figure(<<"GR">>, datasets)
          \/ other' = update_output(<<"GR">>, datasets, None)
    /\ UNCHANGED <<table_vars, value_curves, value_datasets, selectedData,
                   figure, output, pending>>

\* measurement tables the dashboard is explored on: one row per metadata well
OneRowPerWell ==
    {[i \in 1..Len(MetaWells) |-> [WELL |-> MetaWells[i], vals |-> v[i]]] :
        v \in [1..Len(MetaWells) -> [CatalogSet -> {NaN, "1.0"}]]}

Init ==
    /\ well_data_df \in OneRowPerWell
    /\ locations_df = read_meta(<<"Train", "Test", "Train">>)
    /\ curve_i = 1
    /\ DashInit

Session ==
    \/ \E c \in CatalogSet : AddCurve(c)
    \/ \E c \in CatalogSet : RemoveCurve(c)
    \/ \E d \in DatasetSet : ToggleDataset(d)
    \/ SelectOnMap
    \/ ForwardSelection
    \/ RunUpdateFigure
    \/ RunUpdateOutput

Next == BuildColumn \/ Session

Spec == Init /\ [][Next]_vars

\* two sessions on one server, on the table where A has GR only, B has both
\* curves and C has RHOB only
InitShared ==
    /\ Init
    /\ well_data_df[1].vals = [c \in CatalogSet |-> IF c = "GR" THEN "1.0" ELSE NaN]
    /\ well_data_df[2].vals = [c \in CatalogSet |-> "1.0"]
    /\ well_data_df[3].vals = [c \in CatalogSet |-> IF c = "RHOB" THEN "1.0" ELSE NaN]

NextShared == Next \/ OtherSession

SpecShared == InitShared /\ [][NextShared]_vars

-----------------------------------------------------------------------------
\* C1: once the loop has added the column of curve c, the boolean stored for
\* (w, c) is true exactly when the measurement table holds a non-missing
\* sample of c for w; so it is false for a well with no rows, with only
\* missing samples, or absent from the measurement table.
AvailabilityIffSample ==
    \A i \in 1..Len(locations_df) :
        \A c \in DOMAIN locations_df[i].cols :
            locations_df[i].cols[c] <=>
                \E k \in 1..Len(well_data_df) :
                    /\ well_data_df[k].WELL = locations_df[i].WELL
                    /\ well_data_df[k].vals[c] # NaN

C1_Availability ==
    /\ AvailabilityIffSample
    /\ Built => \A i \in 1..Len(locations_df) : DOMAIN locations_df[i].cols = CatalogSet

\* a built table with a well that has a curve, a well whose samples of a
\* curve are all missing, and a well that has no row at all
C1_Witness ==
    /\ Built
    /\ \E i, j, k \in 1..Len(locations_df) : \E c \in CatalogSet :
        /\ locations_df[i].cols[c]
        /\ ~ locations_df[j].cols[c]
        /\ \E r \in 1..Len(well_data_df) : well_data_df[r].WELL = locations_df[j].WELL
        /\ \A r \in 1..Len(well_data_df) : well_data_df[r].WELL # locations_df[k].WELL
        /\ \A d \in CatalogSet : ~ locations_df[k].cols[d]

-----------------------------------------------------------------------------
(* What the claims speak of, stated on the table and not on the callbacks *)

\* the last update_output call ran on the inputs the session holds now
Settled == Built /\ output # None /\ "update_output" \notin pending

\* that call returned (it did not raise)
Returned == "well_names" \in DOMAIN output

TableWells == {locations_df[i].WELL : i \in 1..Len(locations_df)}

RowOf(w) == CHOOSE i \in 1..Len(locations_df) : locations_df[i].WELL = w

\* wells that have every curve of R and whose partition tag is in P
QualifiedSet(R, P) ==
    {w \in TableWells :
        /\ \A c \in R : locations_df[RowOf(w)].cols[c]
        /\ locations_df[RowOf(w)].Dataset \in P}

RequiredCurves == Range(value_curves)

PartitionFilter == Range(value_datasets)

NoEvent == selectedData = None

EmptyEvent == selectedData # None /\ selectedData.points = <<>>

\* the selection names at least one identifier
IdentifierEvent ==
    /\ selectedData # None
    /\ selectedData.points # <<>>
    /\ \A k \in 1..Len(selectedData.points) : "customdata" \in DOMAIN selectedData.points[k]

SelectedIds == {selectedData.points[k].customdata[1] : k \in 1..Len(selectedData.points)}

\* C2: with no selection event the wells returned are exactly those that
\* have every required curve and whose partition tag is in the filter; with
\* no required curve the curve criterion excludes nobody, with an empty
\* partition filter nothing is returned.
C2_FilterWithoutSelection ==
    (Settled /\ NoEvent) =>
        /\ Returned
        /\ Range(output.well_names) = QualifiedSet(RequiredCurves, PartitionFilter)
        /\ RequiredCurves = {} =>
              Range(output.well_names) =
                 {w \in TableWells : locations_df[RowOf(w)].Dataset \in PartitionFilter}
        /\ PartitionFilter = {} => output.well_names = <<>>

\* one partition and one curve asked for: a well is kept, one is dropped for
\* the curve and one for the partition
C2_Witness ==
    /\ Settled /\ NoEvent /\ Returned
    /\ Len(value_curves) = 1 /\ Len(value_datasets) = 1
    /\ output.well_names # <<>>
    /\ \E w \in TableWells : /\ locations_df[RowOf(w)].Dataset \in PartitionFilter
                             /\ w \notin Range(output.well_names)
    /\ \E w \in TableWells : /\ \A c \in RequiredCurves : locations_df[RowOf(w)].cols[c]
                             /\ w \notin Range(output.well_names)

\* C3: when the selection names at least one identifier the wells returned
\* are the selected identifiers that are also qualified; the others are
\* dropped, and nothing is returned when none is qualified.
C3_SelectionIntersects ==
    (Settled /\ IdentifierEvent) =>
        /\ Returned
        /\ Range(output.well_names) =
              SelectedIds \cap QualifiedSet(RequiredCurves, PartitionFilter)

\* a selection of an unknown identifier alone, with qualified wells on the
\* map: the result is empty
C3_Witness ==
    /\ Settled /\ IdentifierEvent /\ Returned
    /\ SelectedIds = {"Z"}
    /\ QualifiedSet(RequiredCurves, PartitionFilter) # {}
    /\ output.well_names = <<>>
    /\ output.num_wells = 0

\* C4: an event without points, like no event, restricts nothing: the
\* outcome is the one of the same curves and partitions with no event.
C4_EmptySelectionShowsAll ==
    (Settled /\ (NoEvent \/ EmptyEvent)) =>
        /\ Returned
        /\ output = update_output(value_curves, value_datasets, None)
        /\ Range(output.well_names) = QualifiedSet(RequiredCurves, PartitionFilter)

C4_Witness ==
    /\ Settled /\ EmptyEvent /\ Returned
    /\ output.num_wells >= 2

\* C5: update_output returns a count and a list for every selection event
\* the map can forward and never ends in an error.
C5_NeverRaises == Settled => Returned

Digits == <<"0", "1", "2", "3", "4", "5", "6", "7", "8", "9">>

RECURSIVE Decimal(_)
Decimal(n) ==
    IF n < 10 THEN Digits[n + 1] ELSE Decimal(n \div 10) \o Digits[(n % 10) + 1]

RECURSIVE QuotedList(_)
QuotedList(names) ==
    IF names = <<>> THEN ""
    ELSE LET front == SubSeq(names, 1, Len(names) - 1)
         IN  (IF front = <<>> THEN "" ELSE QuotedList(front) \o ", ")
                \o "'" \o names[Len(names)] \o "'"

\* C6: the text is a newline, the line `You have selected N wells.`, a
\* blank line and the line `selected_wells = [...]` with the identifiers
\* single-quoted and separated by comma-space, N being their number; for
\* the empty result N is 0 and the list is `[]`.
C6_RenderedText ==
    (Settled /\ Returned) =>
        /\ output.num_wells = Len(output.well_names)
        /\ output.children =
              "\n" \o "You have selected " \o Decimal(Len(output.well_names)) \o " wells."
                   \o "\n" \o "\n"
                   \o "selected_wells = [" \o QuotedList(output.well_names) \o "]"
        /\ output.well_names = <<>> =>
              output.children = "\nYou have selected 0 wells.\n\nselected_wells = []"
        /\ output.well_names = <<"B">> =>
              output.children = "\nYou have selected 1 wells.\n\nselected_wells = ['B']"

C6_Witness ==
    /\ Settled /\ Returned
    /\ output.children = "\nYou have selected 3 wells.\n\nselected_wells = ['A', 'B', 'C']"

\* C7: the identifiers returned are in the order of their rows in the
\* table, each once, whatever the order of the curves, of the partitions
\* and of the selected points, and whatever point is repeated.
C7_TableOrder ==
    (Settled /\ Returned) =>
        output.well_names =
            SelectSeq(Column(locations_df, "WELL"), LAMBDA w : w \in Range(output.well_names))

\* the selection names two wells against the order of the table, one twice
C7_Witness ==
    /\ Settled /\ Returned /\ IdentifierEvent
    /\ Len(selectedData.points) >= 2
    /\ selectedData.points[1].customdata[1] = "C"
    /\ selectedData.points[Len(selectedData.points)].customdata[1] = "A"
    /\ output.well_names = <<"A", "C">>
    /\ value_datasets = <<"Test", "Train">>

ResultSet(out) == Range(out.well_names)

\* C8: with the selection fixed, a further required curve, or a partition
\* tag taken out of the filter, gives a subset of the result.
C8_Monotone ==
    (Settled /\ Returned) =>
        /\ \A c \in CatalogSet \ RequiredCurves :
              LET more == update_output(Append(value_curves, c), value_datasets, selectedData)
              IN  /\ "well_names" \in DOMAIN more
                  /\ ResultSet(more) \subseteq ResultSet(output)
                  /\ more.num_wells <= output.num_wells
        /\ \A d \in PartitionFilter :
              LET less == update_output(value_curves, Remove(value_datasets, d), selectedData)
              IN  /\ "well_names" \in DOMAIN less
                  /\ ResultSet(less) \subseteq ResultSet(output)
                  /\ less.num_wells <= output.num_wells

\* a selection is active, and both a further curve and a removed partition
\* make the result strictly smaller
C8_Witness ==
    /\ Settled /\ Returned /\ IdentifierEvent
    /\ \E c \in CatalogSet \ RequiredCurves :
          update_output(Append(value_curves, c), value_datasets, selectedData).num_wells
             < output.num_wells
    /\ \E d \in PartitionFilter :
          update_output(value_curves, Remove(value_datasets, d), selectedData).num_wells
             < output.num_wells

\* C9: once built, the table is changed by no callback of any session, and
\* what update_output returned for the inputs the session holds is what it
\* returns for them now, whatever ran before or in between.
C9_TableReadOnly ==
    /\ [][Built => locations_df' = locations_df]_vars
    /\ [](Settled => output = update_output(value_curves, value_datasets, selectedData))

\* the other session has been served a map while this one shows the wells
\* it selected
C9_Witness ==
    /\ Settled /\ Returned /\ IdentifierEvent
    /\ other # None /\ "data" \in DOMAIN other
    /\ output.num_wells > 0

\* wells a figure shows
PlottedWells(fig) ==
    {p.customdata[1] : p \in {q \in Range(Flatten(fig.data)) : "customdata" \in DOMAIN q}}

IsPlaceholder(fig) == fig.data = << <<placeholder_point>> >>

\* C10: once both callbacks have run on the same curves and partitions, the
\* wells listed without a selection are the wells plotted, the wells listed
\* under a selection are among them, and the placeholder map is drawn
\* exactly when no well is plotted.
C10_MapAgreesWithText ==
    (Settled /\ figure # None /\ pending = {}) =>
        /\ (Returned /\ (NoEvent \/ EmptyEvent)) => ResultSet(output) = PlottedWells(figure)
        /\ Returned => ResultSet(output) \subseteq PlottedWells(figure)
        /\ IsPlaceholder(figure) <=> PlottedWells(figure) = {}
        /\ IsPlaceholder(figure) <=> QualifiedSet(RequiredCurves, PartitionFilter) = {}
        /\ Cardinality(Range(Flatten(figure.data))) = Len(Flatten(figure.data))

C10_Witness ==
    /\ Settled /\ Returned /\ figure # None /\ pending = {}
    /\ IdentifierEvent
    /\ Cardinality(PlottedWells(figure)) = 2
    /\ output.num_wells = 1
    /\ Len(figure.data) = 2

====
